---- MODULE Spec2Model ----
(***************************************************************************)
(* Model of the recruiting-partner portal (KauanLopez/workoastpartner):    *)
(*   - the per-user pin overlay kept in localStorage (CandidateService),   *)
(*   - the search/merge/filter effect of the PartnerPortal view,           *)
(*   - the duplicate probe run before a registration (ManatalService),     *)
(*   - the contact lookup with its polling loop (RocketReachService),      *)
(*   - the batch contact search of the PartnerPortal view.                 *)
(* Ids are integers: 0 is an absent id (null / undefined / ''), local ids  *)
(* (uuids) are 1..MaxCanon, ATS ids are 101..100+MaxExt.  Strings that the *)
(* code trims, lower-cases or measures are sequences of one-character      *)
(* strings.                                                                *)
(***************************************************************************)
EXTENDS Integers, Sequences, FiniteSets, TLC

\* ------------------------------------------------------------------ bounds
MaxCanon == 2
MaxExt == 2
MaxInflight == 1
MaxPinned == 2

\* --------------------------------------------------------------- universes
Null == 0
UserIds == {"u1", "u2"}
NoUser == "none"
LocalIds == 1..MaxCanon
ManatalIds == 101..(100 + MaxExt)
\* what crypto.randomUUID() can return: a value no record carries yet
FreshUuids == {998, 999}
AVAILABLE == "Available"
HIRED == "Hired"
FILTER_TABS == {"All Candidates", "My Candidates", "Hired", "Pinned"}
MIN_SEARCH_CHARS == 3

Names == { <<"B", "o">>, <<"b", "o">>, <<"A", "l">> }

\* ------------------------------------------------------------ string model
LowerChar(ch) ==
  CASE ch = "A" -> "a"
    [] ch = "B" -> "b"
    [] OTHER -> ch

ToLowerCase(s) == [i \in 1..Len(s) |-> LowerChar(s[i])]

RECURSIVE TrimStart(_)
TrimStart(s) ==
  IF s # <<>> /\ Head(s) = " " THEN TrimStart(Tail(s)) ELSE s

RECURSIVE TrimEnd(_)
TrimEnd(s) ==
  IF s # <<>> /\ s[Len(s)] = " " THEN TrimEnd(SubSeq(s, 1, Len(s) - 1)) ELSE s

Trim(s) == TrimEnd(TrimStart(s))

\* ------------------------------------------------------------ list helpers
Map(s, F(_)) == [i \in 1..Len(s) |-> F(s[i])]

Some(s, P(_)) == \E i \in 1..Len(s) : P(s[i])

\* Array.prototype.find: index of the first element satisfying P, 0 if none
FindIndex(s, P(_)) ==
  IF Some(s, P)
    THEN CHOOSE i \in 1..Len(s) : P(s[i]) /\ \A j \in 1..(i - 1) : ~P(s[j])
    ELSE 0

Elems(s) == { s[i] : i \in 1..Len(s) }

\* ---------------------------------------------------------------- candidate
Candidate(id, mid, name, status, vis, by) ==
  [ id |-> id, manatalId |-> mid, name |-> name, status |-> status,
    visibility |-> vis, createdBy |-> by, isPinned |-> FALSE,
    isInterested |-> FALSE, linkedinUrl |-> <<>>, email |-> <<>>,
    phone |-> <<>> ]

VARIABLES
  db,                  \* canonical store: rows of table candidates
  nextId,              \* next uuid the canonical store hands out
  pinnedIds,           \* localStorage talentflow_pinned_ids_<user>: keys set to true
  pinnedData,          \* localStorage talentflow_pinned_data_<user>: snapshots
  interests,           \* localStorage talentflow_user_interests: ids set to true
  currentUserId,       \* PartnerPortal state
  isAdmin,             \* PartnerPortal prop
  localCandidates,     \* PartnerPortal state
  displayedCandidates, \* PartnerPortal state
  activeFilter,        \* PartnerPortal state
  searchQuery,         \* PartnerPortal state
  searchTimer,         \* pending setTimeout of the search effect: {} or {its closure}
  searchInflight,      \* closures of fired timers awaiting searchCandidates
  last,                \* the last operation taken
  regForm,             \* PartnerPortal state: the registration form
  modalOpen,           \* PartnerPortal state
  duplicateModal,      \* PartnerPortal state: {} (hidden) or {the result shown}
  regPc,               \* where handleRegisterSubmit is suspended
  probeData,           \* checkDuplicateCandidate: its argument
  probeIdx,            \* checkDuplicateCandidate: the strategy whose query is awaited
  probeQueries,        \* the queries checkDuplicateCandidate has issued
  probeAnswers,        \* the responses they got
  probeResult,         \* {} or {what checkDuplicateCandidate returned}
  createCalls,         \* createCandidate / createLocalCandidate calls of this submit
  newCandidate,        \* what createCandidate returned: the new ATS id
  lookupPc,            \* where lookupContactInfo is suspended
  lookupCaller,        \* who awaits it: "batch" or "single"
  pollI,               \* pollForCompletion: the loop index i
  sleptMs,             \* milliseconds slept by this lookup's polling
  checks,              \* status checks of this lookup's polling
  pollAllPending,      \* every status check so far came back non-terminal
  pollHadError,        \* a status check of this lookup ended in a transport error
  lookupProfile,       \* {} or {the profile the lookup ended on}
  lookupResult,        \* {} or {what lookupContactInfo returned}
  isRocketReaching,    \* PartnerPortal state
  rrFeedback,          \* PartnerPortal state
  isBatchProcessing,   \* PartnerPortal state
  showBatchModal,      \* PartnerPortal state
  batchProgress,       \* PartnerPortal state
  batchLogs,           \* PartnerPortal state
  batchPc,             \* where handleBatchSearchContacts is suspended
  targets,             \* handleBatchSearchContacts: the copied list
  batchI,              \* handleBatchSearchContacts: the loop index i (from 1)
  batchLookups         \* the items lookupContactInfo was called for, in call order

portalVars == << db, nextId, pinnedIds, pinnedData, interests, currentUserId,
                 isAdmin, localCandidates, displayedCandidates, activeFilter,
                 searchQuery, searchTimer, searchInflight, last >>

portalVarsButLast ==
  << db, nextId, pinnedIds, pinnedData, interests, currentUserId, isAdmin,
     localCandidates, displayedCandidates, activeFilter, searchQuery, searchTimer,
     searchInflight >>

regVars == << regForm, modalOpen, duplicateModal, regPc, probeData, probeIdx,
              probeQueries, probeAnswers, probeResult, createCalls, newCandidate >>

enrichVars == << lookupPc, lookupCaller, pollI, sleptMs, checks, pollAllPending, pollHadError,
                 pollHadError,
                 lookupProfile, lookupResult, isRocketReaching, rrFeedback,
                 isBatchProcessing, showBatchModal, batchProgress, batchLogs,
                 batchPc, targets, batchI, batchLookups >>

vars == << portalVars, regVars, enrichVars >>

\* =========================================================================
\* CandidateService: the pin / interest overlay and getAll
\* =========================================================================

\* mergeWithLocalPreferences, isPinned: pinnedIds[c.id] or pinnedIds[c.manatalId]
IsPinnedJoin(c, userId) ==
  /\ userId # NoUser
  /\ \/ c.id \in pinnedIds[userId]
     \/ c.manatalId # Null /\ c.manatalId \in pinnedIds[userId]

\* mergeWithLocalPreferences: joins the overlay onto every record
MergeWithLocalPreferences(candidates, userId) ==
  Map(candidates, LAMBDA c :
    [c EXCEPT !.isInterested = (c.id \in interests),
              !.isPinned = IsPinnedJoin(c, userId)])

\* isCandidatePinned: looks one key up, nothing else
IsCandidatePinned(id, userId) ==
  userId # NoUser /\ id \in pinnedIds[userId]

\* togglePin: const primaryId = candidate.manatalId || candidate.id
PrimaryId(candidate) ==
  IF candidate.manatalId # Null THEN candidate.manatalId ELSE candidate.id

IsCurrentlyPinned(candidate, userId) == PrimaryId(candidate) \in pinnedIds[userId]

\* the keys togglePin deletes or sets: primaryId, and candidate.id when truthy
ToggleKeys(candidate) ==
  {PrimaryId(candidate)} \cup (IF candidate.id # Null THEN {candidate.id} ELSE {})

\* togglePin, unpin branch: pinnedData.filter(...)
UnpinData(data, candidate) ==
  SelectSeq(data, LAMBDA c :
    c.manatalId # candidate.manatalId /\ c.id # candidate.id)

\* togglePin, pin branch: existsInData
ExistsInData(data, candidate) ==
  \E i \in 1..Len(data) :
    \/ data[i].manatalId # Null /\ data[i].manatalId = candidate.manatalId
    \/ data[i].id = candidate.id

\* togglePin, pin branch: push unless a snapshot exists
PinData(data, candidate) ==
  IF ExistsInData(data, candidate)
    THEN data
    ELSE Append(data, [candidate EXCEPT !.isPinned = TRUE])

\* togglePin: the value returned
TogglePinResult(candidate, userId) ==
  IF userId = NoUser THEN FALSE ELSE ~IsCurrentlyPinned(candidate, userId)

\* togglePin: the key map written back for userId
TogglePinIds(candidate, userId) ==
  IF IsCurrentlyPinned(candidate, userId)
    THEN pinnedIds[userId] \ ToggleKeys(candidate)
    ELSE pinnedIds[userId] \cup ToggleKeys(candidate)

\* togglePin: the snapshot list written back for userId
TogglePinData(candidate, userId) ==
  IF IsCurrentlyPinned(candidate, userId)
    THEN UnpinData(pinnedData[userId], candidate)
    ELSE PinData(pinnedData[userId], candidate)

\* getAll, step 3: pinned snapshots that are not already in the DB list
UniquePinnedExtras(dbCandidates, pinnedDataCache) ==
  SelectSeq(pinnedDataCache, LAMBDA pinned :
    ~ \E i \in 1..Len(dbCandidates) :
        \/ dbCandidates[i].manatalId # Null
           /\ dbCandidates[i].manatalId = pinned.manatalId
        \/ dbCandidates[i].id = pinned.id)

\* getAll: [database candidates] + [the user's pinned snapshots], flags applied
GetAll(userId) ==
  LET pinnedDataCache == IF userId # NoUser THEN pinnedData[userId] ELSE <<>>
  IN  MergeWithLocalPreferences(db \o UniquePinnedExtras(db, pinnedDataCache), userId)

\* =========================================================================
\* PartnerPortal: the search / merge / filter effect
\* =========================================================================

\* the effect without an active search: the tab's filter over localCandidates
FilterLocal(list, filter, userId, admin) ==
  CASE filter = "Pinned" -> SelectSeq(list, LAMBDA c : c.isPinned)
    [] filter = "All Candidates" ->
         SelectSeq(SelectSeq(list, LAMBDA c : ~c.isPinned),
                   LAMBDA c : admin \/ c.visibility \/ c.createdBy = userId)
    [] filter = "Hired" -> SelectSeq(list, LAMBDA c : c.status = HIRED)
    [] filter = "My Candidates" -> SelectSeq(list, LAMBDA c : c.createdBy = userId)
    [] OTHER -> list

\* the record synthesized for a search result with no local match
SynthesizeExternal(mResult, userId, uuid) ==
  [ Candidate(IF mResult.manatalId # Null THEN mResult.manatalId ELSE uuid,
              mResult.manatalId, mResult.name, AVAILABLE, TRUE, NoUser)
    EXCEPT !.isPinned = (mResult.manatalId # Null
                         /\ IsCandidatePinned(mResult.manatalId, userId)),
           !.linkedinUrl = mResult.linkedinUrl,
           !.email = mResult.email,
           !.phone = mResult.phone ]

\* localCandidates.find(local => same manatalId || same lower-cased name)
ExistingLocal(mResult, local) ==
  FindIndex(local, LAMBDA l :
    \/ mResult.manatalId # Null /\ l.manatalId = mResult.manatalId
    \/ ToLowerCase(l.name) = ToLowerCase(mResult.name))

MergeResult(mResult, local, userId, uuid) ==
  IF ExistingLocal(mResult, local) # 0
    THEN local[ExistingLocal(mResult, local)]
    ELSE SynthesizeExternal(mResult, userId, uuid)

\* manatalResults.map(...); uuids[i] is what randomUUID() returns for result i
MergeResults(manatalResults, local, userId, uuids) ==
  [ i \in 1..Len(manatalResults) |->
      MergeResult(manatalResults[i], local, userId, uuids[i]) ]

\* the tab's filter over the merged search results
FilterSearch(merged, filter) ==
  CASE filter = "Pinned" -> SelectSeq(merged, LAMBDA c : c.isPinned)
    [] filter = "All Candidates" -> SelectSeq(merged, LAMBDA c : ~c.isPinned)
    [] OTHER -> merged

SearchActive(query) == Len(Trim(query)) >= MIN_SEARCH_CHARS

\* mapToCandidate leaving manatalId out of what it returns
ExternalRecordsWithoutAtsId ==
  { Candidate(m, Null, n, AVAILABLE, TRUE, NoUser) : m \in ManatalIds, n \in Names }

\* what mapToCandidate makes of an ATS record: id = manatalId = String(c.id)
ExternalRecords ==
  { Candidate(m, m, n, AVAILABLE, TRUE, NoUser) : m \in ManatalIds, n \in Names }

\* search responses: at most MaxExt results with pairwise distinct ATS ids
ExternalLists ==
  { s \in UNION { [1..n -> ExternalRecords] : n \in 0..MaxExt } :
      \A i, j \in 1..Len(s) : i # j => s[i].manatalId # s[j].manatalId }

\* the values randomUUID() draws in one run of the merge, one per result, all
\* different
UuidDraws ==
  { d \in [1..MaxExt -> FreshUuids] : \A i, j \in 1..MaxExt : i # j => d[i] # d[j] }

\* the effect's closure, captured when the effect runs
Closure(query, local, filter, userId) ==
  [ query |-> query, local |-> local, filter |-> filter, userId |-> userId ]

\* the displayed list the effect leaves: filtered at once without a search,
\* otherwise what the handler set, until the search answers
EffectDisplayed(query, local, filter, userId, admin, shown) ==
  IF SearchActive(query) THEN shown ELSE FilterLocal(local, filter, userId, admin)

\* the timer the effect leaves: the old one is cleared, a new one set for a search
EffectTimer(query, local, filter, userId) ==
  IF SearchActive(query) THEN {Closure(query, local, filter, userId)} ELSE {}

\* =========================================================================
\* Portal: initial state and handlers
\* =========================================================================

NoOp == [ op |-> "none" ]

\* PartnerPortal mounts (page load): the init effect reads the session and getAll
Load(u, admin) ==
  /\ currentUserId' = u
  /\ isAdmin' = admin
  /\ localCandidates' = GetAll(u)
  /\ activeFilter' = "All Candidates"
  /\ searchQuery' = <<>>
  /\ displayedCandidates' = FilterLocal(GetAll(u), "All Candidates", u, admin)
  /\ searchTimer' = {}
  /\ searchInflight' = {}
  /\ last' = [ op |-> "load" ]
  /\ UNCHANGED << db, nextId, pinnedIds, pinnedData, interests,
                  regVars,
                  enrichVars >>

\* a filter tab is selected (setActiveFilter); the effect runs again
SetFilter(f) ==
  /\ currentUserId # NoUser
  /\ f # activeFilter
  /\ activeFilter' = f
  /\ displayedCandidates' = EffectDisplayed(searchQuery, localCandidates, f,
                                            currentUserId, isAdmin, displayedCandidates)
  /\ searchTimer' = EffectTimer(searchQuery, localCandidates, f, currentUserId)
  /\ last' = [ op |-> "filter" ]
  /\ UNCHANGED << db, nextId, pinnedIds, pinnedData, interests, currentUserId,
                  isAdmin, localCandidates, searchQuery, searchInflight,
                  regVars, enrichVars >>

\* the search box changes; the effect runs again
SetQuery(q) ==
  /\ currentUserId # NoUser
  /\ q # searchQuery
  /\ searchQuery' = q
  /\ displayedCandidates' = EffectDisplayed(q, localCandidates, activeFilter,
                                            currentUserId, isAdmin, displayedCandidates)
  /\ searchTimer' = EffectTimer(q, localCandidates, activeFilter, currentUserId)
  /\ last' = [ op |-> "query" ]
  /\ UNCHANGED << db, nextId, pinnedIds, pinnedData, interests, currentUserId,
                  isAdmin, localCandidates, activeFilter, searchInflight,
                  regVars,
                  enrichVars >>

\* the 1500 ms timer fires: the callback starts searchCandidates and awaits it
TimerFire ==
  /\ searchTimer # {}
  /\ Cardinality(searchInflight) < MaxInflight
  /\ searchInflight' = searchInflight \cup searchTimer
  /\ searchTimer' = {}
  /\ last' = [ op |-> "timer" ]
  /\ UNCHANGED << db, nextId, pinnedIds, pinnedData, interests, currentUserId,
                  isAdmin, localCandidates, displayedCandidates, activeFilter,
                  searchQuery,
                  regVars,
                  enrichVars >>

\* searchCandidates answers: merge with the closure's localCandidates, filter, show
SearchResponse(cl, manatalResults) ==
  /\ cl \in searchInflight
  /\ searchInflight' = searchInflight \ {cl}
  /\ \E uuids \in UuidDraws :
       displayedCandidates' =
         FilterSearch(MergeResults(manatalResults, cl.local, cl.userId, uuids),
                      cl.filter)
  /\ last' = [ op |-> "search" ]
  /\ UNCHANGED << db, nextId, pinnedIds, pinnedData, interests, currentUserId,
                  isAdmin, localCandidates, activeFilter, searchQuery, searchTimer,
                  regVars,
                  enrichVars >>

\* handlePinToggle: togglePin, then the two list updates, then the effect (it
\* runs again because localCandidates changed)
HandlePinToggle(candidate) ==
  LET isNowPinned == TogglePinResult(candidate, currentUserId)
      idToPin == PrimaryId(candidate)
      Hit(c) == (c.manatalId # Null /\ c.manatalId = idToPin) \/ c.id = idToPin
      updateFn(c) == IF Hit(c) THEN [c EXCEPT !.isPinned = isNowPinned] ELSE c
      shown ==
        IF (activeFilter = "All Candidates" /\ isNowPinned)
           \/ (activeFilter = "Pinned" /\ ~isNowPinned)
          THEN SelectSeq(displayedCandidates, LAMBDA c : ~Hit(c))
          ELSE Map(displayedCandidates, updateFn)
      local ==
        IF ~Some(localCandidates, Hit) /\ isNowPinned
          THEN << [candidate EXCEPT !.isPinned = TRUE] >> \o localCandidates
          ELSE Map(localCandidates, updateFn)
  IN  /\ currentUserId # NoUser
      /\ candidate \in Elems(displayedCandidates)
      /\ pinnedIds' = [pinnedIds EXCEPT ![currentUserId] =
                         TogglePinIds(candidate, currentUserId)]
      /\ pinnedData' = [pinnedData EXCEPT ![currentUserId] =
                          TogglePinData(candidate, currentUserId)]
      /\ localCandidates' = local
      /\ displayedCandidates' = EffectDisplayed(searchQuery, local, activeFilter,
                                                currentUserId, isAdmin, shown)
      /\ searchTimer' = EffectTimer(searchQuery, local, activeFilter, currentUserId)
      /\ last' = [ op |-> "togglePin" ]
      /\ UNCHANGED << db, nextId, interests, currentUserId, isAdmin, activeFilter,
                      searchQuery, searchInflight,
                  regVars,
                  enrichVars >>

\* a togglePin whose two localStorage keys leave the userId out
TogglePinSharedKeys(candidate, userId) ==
  /\ IF userId = NoUser
       THEN UNCHANGED << pinnedIds, pinnedData >>
       ELSE /\ pinnedIds' = [u \in UserIds |-> TogglePinIds(candidate, userId)]
            /\ pinnedData' = [u \in UserIds |-> TogglePinData(candidate, userId)]
  /\ last' = [ op |-> "togglePin" ]
  /\ UNCHANGED << db, nextId, interests, currentUserId, isAdmin, localCandidates,
                  displayedCandidates, activeFilter, searchQuery, searchTimer,
                  searchInflight, regVars, enrichVars >>

\* candidateService.togglePin(candidate, userId): without a userId it returns at
\* once; otherwise the two localStorage entries are rewritten, nothing else
TogglePin(candidate, userId) ==
  /\ IF userId = NoUser
       THEN UNCHANGED << pinnedIds, pinnedData >>
       ELSE /\ pinnedIds' = [pinnedIds EXCEPT ![userId] =
                               TogglePinIds(candidate, userId)]
            /\ pinnedData' = [pinnedData EXCEPT ![userId] =
                                TogglePinData(candidate, userId)]
  /\ last' = [ op |-> "togglePin" ]
  /\ UNCHANGED << db, nextId, interests, currentUserId, isAdmin, localCandidates,
                  displayedCandidates, activeFilter, searchQuery, searchTimer,
                  searchInflight, regVars, enrichVars >>

\* candidateService.updateStatus(id, status) by the signed-in user: the interests
\* entry of localStorage is rewritten, then the row's status where the row exists
UpdateStatus(id, status) ==
  /\ currentUserId # NoUser
  /\ interests' = IF status = HIRED THEN interests \cup {id} ELSE interests \ {id}
  /\ db' = [ i \in 1..Len(db) |->
              IF db[i].id = id THEN [db[i] EXCEPT !.status = status] ELSE db[i] ]
  /\ last' = [ op |-> "updateStatus" ]
  /\ UNCHANGED << nextId, pinnedIds, pinnedData, currentUserId, isAdmin,
                  localCandidates, displayedCandidates, activeFilter, searchQuery,
                  searchTimer, searchInflight, regVars, enrichVars >>

\* executeDeleteCandidate: the row leaves the canonical store (deleteCandidates
\* only accepts uuids) and both lists
ExecuteDelete(candidate) ==
  LET localId == candidate.id
      isStoredLocally == Some(localCandidates, LAMBDA c : c.id = localId)
      local == SelectSeq(localCandidates, LAMBDA c : c.id # localId)
      shown == SelectSeq(displayedCandidates, LAMBDA c : c.id # localId)
  IN  /\ currentUserId # NoUser
      /\ candidate \in Elems(displayedCandidates)
      /\ isAdmin \/ candidate.createdBy = currentUserId
      /\ db' = IF isStoredLocally /\ localId \in LocalIds
                 THEN SelectSeq(db, LAMBDA r : r.id # localId)
                 ELSE db
      /\ localCandidates' = local
      /\ displayedCandidates' = EffectDisplayed(searchQuery, local, activeFilter,
                                                currentUserId, isAdmin, shown)
      /\ searchTimer' = EffectTimer(searchQuery, local, activeFilter, currentUserId)
      /\ last' = [ op |-> "delete" ]
      /\ UNCHANGED << nextId, pinnedIds, pinnedData, interests, currentUserId,
                      isAdmin, activeFilter, searchQuery, searchInflight,
                  regVars,
                  enrichVars >>

\* handleRegisterSubmit with editingId: the ATS record is patched and the
\* entries matching editingId take over mapToCandidate's fields, id included
EditSubmit(candidate, fullName) ==
  LET editingId == PrimaryId(candidate)
      Hit(c) == c.manatalId = editingId \/ c.id = editingId
      patch(c) ==
        IF Hit(c)
          THEN [c EXCEPT !.id = editingId, !.manatalId = editingId,
                         !.name = fullName, !.status = AVAILABLE,
                         !.visibility = TRUE]
          ELSE c
      local == Map(localCandidates, patch)
  IN  /\ currentUserId # NoUser
      /\ candidate \in Elems(displayedCandidates)
      /\ isAdmin \/ candidate.createdBy = currentUserId
      /\ editingId \in ManatalIds
      /\ localCandidates' = local
      /\ displayedCandidates' =
           EffectDisplayed(searchQuery, local, activeFilter, currentUserId, isAdmin,
                           Map(displayedCandidates, patch))
      /\ searchTimer' = EffectTimer(searchQuery, local, activeFilter, currentUserId)
      /\ last' = [ op |-> "edit" ]
      /\ UNCHANGED << db, nextId, pinnedIds, pinnedData, interests, currentUserId,
                      isAdmin, activeFilter, searchQuery, searchInflight,
                  regVars,
                  enrichVars >>

\* the owner, visibility and status a row is inserted with: odd ids are visible
\* Available rows of u1, even ids hidden Hired rows of u2
RowProfile(id) ==
  IF id % 2 = 1
    THEN [ status |-> AVAILABLE, visibility |-> TRUE, createdBy |-> "u1" ]
    ELSE [ status |-> HIRED, visibility |-> FALSE, createdBy |-> "u2" ]

\* another session inserts a row (a registration, the admin's ATS import)
RemoteInsert(mid, name, url) ==
  /\ mid # Null => \A i \in 1..Len(db) : db[i].manatalId # mid
  /\ db' = Append(db, [ Candidate(nextId, mid, name, RowProfile(nextId).status,
                                  RowProfile(nextId).visibility,
                                  RowProfile(nextId).createdBy)
                        EXCEPT !.linkedinUrl = url ])
  /\ nextId' = nextId + 1
  /\ last' = [ op |-> "insert" ]
  /\ UNCHANGED << pinnedIds, pinnedData, interests, currentUserId, isAdmin,
                  localCandidates, displayedCandidates, activeFilter, searchQuery,
                  searchTimer, searchInflight,
                  regVars,
                  enrichVars >>

\* another session deletes a row
RemoteDelete(id) ==
  /\ \E i \in 1..Len(db) : db[i].id = id
  /\ db' = SelectSeq(db, LAMBDA r : r.id # id)
  /\ last' = [ op |-> "remoteDelete" ]
  /\ UNCHANGED << nextId, pinnedIds, pinnedData, interests, currentUserId, isAdmin,
                  localCandidates, displayedCandidates, activeFilter, searchQuery,
                  searchTimer, searchInflight,
                  regVars,
                  enrichVars >>

\* =========================================================================
\* ManatalService.checkDuplicateCandidate and PartnerPortal.handleRegisterSubmit
\* =========================================================================

\* a strategy is skipped when its value is falsy or shorter than this
ProbeMinLength == 3

EmptyForm == [ email |-> <<>>, phone_number |-> <<>>, linkedin_url |-> <<>>,
               full_name |-> <<>> ]

\* the strategies with the name probed first
StrategiesNameFirst(data) ==
  << [ field |-> "name", value |-> Trim(data.full_name) ],
     [ field |-> "email", value |-> Trim(data.email) ],
     [ field |-> "phone", value |-> Trim(data.phone_number) ],
     [ field |-> "linkedin", value |-> Trim(data.linkedin_url) ] >>

\* the strategies, in the order of the array; every value is trimmed.  An absent
\* field (undefined) and '' are both falsy and are both <<>> here
Strategies(data) ==
  << [ field |-> "email", value |-> Trim(data.email) ],
     [ field |-> "phone", value |-> Trim(data.phone_number) ],
     [ field |-> "linkedin", value |-> Trim(data.linkedin_url) ],
     [ field |-> "name", value |-> Trim(data.full_name) ] >>

\* a skip test that only drops empty values
SkippedWhenEmpty(strat) == strat.value = <<>>

\* if (!strat.value || strat.value.length < 3) continue
Skipped(strat) == strat.value = <<>> \/ Len(strat.value) < ProbeMinLength

\* a loop that gives up after the first query
NextStrategyFirstOnly(data, from) ==
  IF from = 1 /\ \E j \in 1..Len(Strategies(data)) : ~Skipped(Strategies(data)[j])
    THEN CHOOSE j \in 1..Len(Strategies(data)) :
           /\ ~Skipped(Strategies(data)[j])
           /\ \A k \in 1..(j - 1) : Skipped(Strategies(data)[k])
    ELSE 0

\* the for loop from strategy `from` on: the first one not skipped, 0 if none
NextStrategy(data, from) ==
  IF \E j \in from..Len(Strategies(data)) : ~Skipped(Strategies(data)[j])
    THEN CHOOSE j \in from..Len(Strategies(data)) :
           /\ ~Skipped(Strategies(data)[j])
           /\ \A k \in from..(j - 1) : Skipped(Strategies(data)[k])
    ELSE 0

\* what a query to the ATS can come back with: fetch throws, an HTTP error, or
\* 200 with count and a page of candidates (their ATS ids)
ProbePages == { <<>>, <<101>>, <<102, 101>> }

ProbeResponses ==
  { [ kind |-> k, count |-> 0, results |-> <<>> ] : k \in {"throw", "notok"} }
  \cup { [ kind |-> "ok", count |-> Len(r), results |-> r ] : r \in ProbePages }

\* if (response.ok) ... if (data.count > 0 && data.results?.length > 0)
IsMatch(resp) == resp.kind = "ok" /\ resp.count > 0 /\ Len(resp.results) > 0

NoMatch ==
  [ isDuplicate |-> FALSE, matchedBy |-> "null", existingCandidate |-> Null ]

\* the result returned on a match: existingCandidate is mapToCandidate(results[0])
DuplicateResult(strat, resp) ==
  [ isDuplicate |-> TRUE, matchedBy |-> strat.field,
    existingCandidate |-> resp.results[1] ]

NoCalls == [ ats |-> 0, local |-> 0 ]

\* a handler that shows the duplicate and goes on to create all the same
ProbeReturnsThenCreates(result, calls) ==
  /\ probeResult' = {result}
  /\ probeIdx' = 0
  /\ duplicateModal' = IF result.isDuplicate THEN {result} ELSE duplicateModal
  /\ regPc' = "createCandidate"
  /\ createCalls' = [calls EXCEPT !.ats = @ + 1]

\* handleRegisterSubmit resumes with the probe's result: a duplicate is shown and
\* the handler returns; otherwise createCandidate is called and awaited
ProbeReturns(result, calls) ==
  /\ probeResult' = {result}
  /\ probeIdx' = 0
  /\ IF result.isDuplicate
       THEN /\ duplicateModal' = {result}
            /\ regPc' = "idle"
            /\ createCalls' = calls
       ELSE /\ duplicateModal' = duplicateModal
            /\ regPc' = "createCandidate"
            /\ createCalls' = [calls EXCEPT !.ats = @ + 1]

\* checkDuplicateCandidate runs its loop from strategy `from` up to the next
\* await: the query of the first strategy not skipped, or the return of noMatch
ProbeLoop(data, from, queries, calls) ==
  IF from > Len(Strategies(data)) \/ NextStrategy(data, from) = 0
    THEN /\ probeQueries' = queries
         /\ ProbeReturns(NoMatch, calls)
    ELSE /\ probeQueries' = Append(queries, Strategies(data)[NextStrategy(data, from)])
         /\ probeIdx' = NextStrategy(data, from)
         /\ regPc' = "probing"
         /\ probeResult' = {}
         /\ createCalls' = calls
         /\ duplicateModal' = duplicateModal

\* handleOpenCreate; the record of the previous submit is dropped
OpenCreate ==
  /\ currentUserId # NoUser
  /\ ~modalOpen
  /\ duplicateModal = {}
  /\ regPc = "idle"
  /\ modalOpen' = TRUE
  /\ regForm' = EmptyForm
  /\ probeData' = EmptyForm
  /\ probeQueries' = <<>>
  /\ probeAnswers' = <<>>
  /\ probeResult' = {}
  /\ createCalls' = NoCalls
  /\ newCandidate' = Null
  /\ last' = [ op |-> "openCreate" ]
  /\ UNCHANGED << portalVarsButLast, duplicateModal, regPc, probeIdx,
                  enrichVars >>

\* an input of the form changes
SetField(field, value) ==
  /\ modalOpen
  /\ duplicateModal = {}
  /\ regForm[field] # value
  /\ regForm' = [regForm EXCEPT ![field] = value]
  /\ last' = [ op |-> "setField" ]
  /\ UNCHANGED << db, nextId, pinnedIds, pinnedData, interests, currentUserId,
                  isAdmin, localCandidates, displayedCandidates, activeFilter,
                  searchQuery, searchTimer, searchInflight,
                  modalOpen, duplicateModal, regPc, probeData, probeIdx,
                  probeQueries, probeAnswers, probeResult, createCalls,
                  newCandidate,
                  enrichVars >>

\* handleRegisterSubmit without editingId, up to its first await.  The button is
\* disabled while a submit is under way and full_name is a required input
RegisterSubmit ==
  /\ modalOpen
  /\ duplicateModal = {}
  /\ regPc = "idle"
  /\ regForm.full_name # <<>>
  /\ probeData' = regForm
  /\ probeAnswers' = <<>>
  /\ newCandidate' = Null
  /\ ProbeLoop(regForm, 1, <<>>, NoCalls)
  /\ last' = [ op |-> "submit" ]
  /\ UNCHANGED << db, nextId, pinnedIds, pinnedData, interests, currentUserId,
                  isAdmin, localCandidates, displayedCandidates, activeFilter,
                  searchQuery, searchTimer, searchInflight, regForm, modalOpen,
                  enrichVars >>

\* the awaited query answers: a match is returned, otherwise the loop goes on
ProbeResponse(resp) ==
  /\ regPc = "probing"
  /\ probeAnswers' = Append(probeAnswers, resp)
  /\ IF IsMatch(resp)
       THEN /\ probeQueries' = probeQueries
            /\ ProbeReturns(DuplicateResult(Strategies(probeData)[probeIdx], resp),
                            createCalls)
       ELSE ProbeLoop(probeData, probeIdx + 1, probeQueries, createCalls)
  /\ last' = [ op |-> "probeResponse" ]
  /\ UNCHANGED << db, nextId, pinnedIds, pinnedData, interests, currentUserId,
                  isAdmin, localCandidates, displayedCandidates, activeFilter,
                  searchQuery, searchTimer, searchInflight, regForm, modalOpen,
                  probeData, newCandidate,
                  enrichVars >>

\* createCandidate answers: it threw (the alert), or it returned the new ATS
\* record and createLocalCandidate is called and awaited
CreateCandidateResponse(ok, mid) ==
  /\ regPc = "createCandidate"
  /\ \A i \in 1..Len(db) : db[i].manatalId # mid
  /\ IF ok
       THEN /\ regPc' = "createLocalCandidate"
            /\ newCandidate' = mid
            /\ createCalls' = [createCalls EXCEPT !.local = @ + 1]
       ELSE /\ regPc' = "idle"
            /\ newCandidate' = newCandidate
            /\ createCalls' = createCalls
  /\ last' = [ op |-> "createCandidateResponse" ]
  /\ UNCHANGED << db, nextId, pinnedIds, pinnedData, interests, currentUserId,
                  isAdmin, localCandidates, displayedCandidates, activeFilter,
                  searchQuery, searchTimer, searchInflight, regForm, modalOpen,
                  duplicateModal, probeData, probeIdx, probeQueries, probeAnswers,
                  probeResult,
                  enrichVars >>

\* createLocalCandidate answers: it threw (the alert), or the row is stored and
\* put in front of both lists, the modal closes and the effect runs again
CreateLocalCandidateResponse(ok) ==
  LET dbCandidate ==
        Candidate(nextId, newCandidate, probeData.full_name, AVAILABLE, TRUE,
                  currentUserId)
      local == << dbCandidate >> \o localCandidates
  IN  /\ regPc = "createLocalCandidate"
      /\ regPc' = "idle"
      /\ IF ok
           THEN /\ db' = Append(db, dbCandidate)
                /\ nextId' = nextId + 1
                /\ localCandidates' = local
                /\ displayedCandidates' =
                     EffectDisplayed(searchQuery, local, activeFilter, currentUserId,
                                     isAdmin, << dbCandidate >> \o displayedCandidates)
                /\ searchTimer' = EffectTimer(searchQuery, local, activeFilter,
                                              currentUserId)
                /\ modalOpen' = FALSE
           ELSE UNCHANGED << db, nextId, localCandidates, displayedCandidates,
                             searchTimer, modalOpen >>
      /\ last' = [ op |-> "createLocalCandidateResponse" ]
      /\ UNCHANGED << pinnedIds, pinnedData, interests, currentUserId, isAdmin,
                      activeFilter, searchQuery, searchInflight, regForm,
                      duplicateModal, probeData, probeIdx, probeQueries,
                      probeAnswers, probeResult, createCalls, newCandidate,
                  enrichVars >>

\* the duplicate modal's only button: "Understood"
DismissDuplicate ==
  /\ duplicateModal # {}
  /\ duplicateModal' = {}
  /\ last' = [ op |-> "dismiss" ]
  /\ UNCHANGED << portalVarsButLast, regForm, modalOpen, regPc, probeData, probeIdx,
                  probeQueries, probeAnswers, probeResult, createCalls,
                  newCandidate,
                  enrichVars >>

\* handleCloseModal
CloseModal ==
  /\ modalOpen
  /\ duplicateModal = {}
  /\ modalOpen' = FALSE
  /\ last' = [ op |-> "closeModal" ]
  /\ UNCHANGED << portalVarsButLast, regForm, duplicateModal, regPc, probeData,
                  probeIdx, probeQueries, probeAnswers, probeResult, createCalls,
                  newCandidate,
                  enrichVars >>

\* =========================================================================
\* RocketReachService: lookupContactInfo, pollForCompletion, extractContactData
\* =========================================================================

MAX_RETRIES == 10
POLL_INTERVAL_MS == 3000

\* messages of the error field; "" is an unset field
NoError == ""
MsgUrlRequired == "LinkedIn URL is required."
MsgConnection == "Connection Error"
MsgEmpty == "No data returned from lookup service (Empty Response)."
MsgDenied == "Access Denied (403). Verify RocketReach Credits or API Key."
MsgUnauthorized == "Unauthorized (401). Invalid RocketReach API Key."
MsgNotFound == "Profile not found in RocketReach database."
MsgApi == "API Error"
MsgFailed == "RocketReach lookup failed to resolve data."
MsgIncomplete == "Lookup incomplete"
MsgNoContact == "Profile processed, but no public contact info found."
MsgTimedOut == "Polling timed out before completion."

PollingStatuses == {"searching", "progress", "waiting"}
TerminalStatuses == {"complete", "failed", "not queued"}

Mail(address, type) == [ email |-> address, type |-> type ]

EmailLists ==
  { <<>>,
    << Mail(<<"w", "@">>, "professional"), Mail(<<"p", "@">>, "personal") >>,
    << Mail(<<"o", "@">>, "other"), Mail(<<"w", "@">>, "professional") >>,
    << Mail(<<"o", "@">>, "other"), Mail(<<"x", "@">>, "other") >>,
    << Mail(<<"w", "@">>, "professional"), Mail(<<>>, "personal") >> }

PhoneLists == { <<>>, << <<"1">>, <<"2">> >> }

\* a profile of the provider; present = FALSE: it has no emails and no phones field
Profile(status, present, emails, phones) ==
  [ status |-> status, present |-> present, emails |-> emails, phones |-> phones ]

Profiles ==
  { Profile(st, TRUE, e, ph) :
      st \in PollingStatuses \cup TerminalStatuses \cup {"unknown"},
      e \in EmailLists, ph \in PhoneLists }
  \cup { Profile(st, FALSE, <<>>, <<>>) :
           st \in PollingStatuses \cup TerminalStatuses \cup {"unknown"} }

\* what the 'lookup' call can come back with
LookupResponses(profiles, codes) ==
  { [ kind |-> k, code |-> 0, profile |-> Profile("unknown", FALSE, <<>>, <<>>) ] :
      k \in {"fnError", "empty"} }
  \cup { [ kind |-> "apiError", code |-> c,
           profile |-> Profile("unknown", FALSE, <<>>, <<>>) ] : c \in codes }
  \cup { [ kind |-> "profile", code |-> 0, profile |-> pr ] : pr \in profiles }

\* what a 'check_status' call can come back with
CheckResponses(profiles) ==
  { [ kind |-> k, profile |-> Profile("unknown", FALSE, <<>>, <<>>) ] :
      k \in {"error", "noProfile"} }
  \cup { [ kind |-> "profile", profile |-> pr ] : pr \in profiles }

Outcome(email, phone, error) == [ email |-> email, phone |-> phone, error |-> error ]

ErrorOutcome(msg) == Outcome(<<>>, <<>>, msg)

\* an extraction that takes the first email whatever its category
ExtractFirstEntries(profile) ==
  LET foundEmail == IF Len(profile.emails) > 0 THEN profile.emails[1].email ELSE <<>>
      foundPhone == IF Len(profile.phones) > 0 THEN profile.phones[1] ELSE <<>>
  IN  IF foundEmail = <<>> /\ foundPhone = <<>>
        THEN ErrorOutcome(MsgNoContact)
        ELSE Outcome(foundEmail, foundPhone, NoError)

\* extractContactData
ExtractContactData(profile) ==
  LET personal == FindIndex(profile.emails, LAMBDA e : e.type = "personal")
      professional == FindIndex(profile.emails, LAMBDA e : e.type = "professional")
      foundEmail ==
        IF Len(profile.emails) > 0
          THEN profile.emails[IF personal # 0 THEN personal
                              ELSE IF professional # 0 THEN professional ELSE 1].email
          ELSE <<>>
      foundPhone == IF Len(profile.phones) > 0 THEN profile.phones[1] ELSE <<>>
  IN  IF foundEmail = <<>> /\ foundPhone = <<>>
        THEN ErrorOutcome(MsgNoContact)
        ELSE Outcome(foundEmail, foundPhone, NoError)

\* a loop condition that lets one more round in
PollGoesOnInclusive(i) == i <= MAX_RETRIES

\* pollForCompletion's loop condition: i < MAX_RETRIES
PollGoesOn(i) == i < MAX_RETRIES

\* lookupContactInfo from the profile it holds once any polling is over
AfterPolling(currentProfile) ==
  IF currentProfile.status = "failed"
    THEN ErrorOutcome(MsgFailed)
    ELSE IF currentProfile.status \notin {"complete", "not queued"}
              /\ ~currentProfile.present
           THEN ErrorOutcome(MsgIncomplete)
           ELSE ExtractContactData(currentProfile)

\* an error block that knows one message only
ApiErrorGeneric(code) == ErrorOutcome(MsgApi)

\* the API error block of lookupContactInfo
ApiError(code) ==
  CASE code = 403 -> ErrorOutcome(MsgDenied)
    [] code = 401 -> ErrorOutcome(MsgUnauthorized)
    [] code = 404 -> ErrorOutcome(MsgNotFound)
    [] OTHER -> ErrorOutcome(MsgApi)

\* =========================================================================
\* PartnerPortal: handleBatchSearchContacts and handleRocketReachLookup
\* =========================================================================

BatchLog(list, i, msg, type) ==
  [ item |-> i, candidateName |-> list[i].name, message |-> msg, type |-> type ]

\* a loop that stops at every item, with or without a linkedinUrl
NextTargetAny(list, from) == IF from <= Len(list) THEN from ELSE 0

\* the for loop from item `from` on: the first item with a linkedinUrl, 0 if none
NextTarget(list, from) ==
  IF \E j \in from..Len(list) : list[j].linkedinUrl # <<>>
    THEN CHOOSE j \in from..Len(list) :
           /\ list[j].linkedinUrl # <<>>
           /\ \A k \in from..(j - 1) : list[k].linkedinUrl = <<>>
    ELSE 0

\* the log lines of the items from..to, all without a linkedinUrl
SkipLogs(list, from, to) ==
  [ k \in 1..(to - from + 1) |->
      BatchLog(list, from + k - 1, "Skipped - No LinkedIn URL.", "warning") ]

\* the loop runs from item `from` up to its next await (the 500 ms pause before a
\* lookup) or to its end, where finally clears the flag
BatchLoop(list, from, logs) ==
  LET j == NextTarget(list, from)
      reached == IF j = 0 THEN Len(list) ELSE j
  IN  /\ batchLogs' = logs \o SkipLogs(list, from, IF j = 0 THEN Len(list) ELSE j - 1)
      /\ batchProgress' = IF from > Len(list)
                            THEN batchProgress
                            ELSE [ current |-> reached, total |-> Len(list) ]
      /\ batchPc' = IF j = 0 THEN "idle" ELSE "throttle"
      /\ batchI' = j
      /\ isBatchProcessing' = (j # 0)

\* updateCandidateState(candidateId, { email?, phone? })
UpdateCandidateState(list, candidateId, res) ==
  Map(list, LAMBDA c :
    IF c.id = candidateId \/ (c.manatalId # Null /\ c.manatalId = candidateId)
      THEN [c EXCEPT !.email = IF res.email # <<>> THEN res.email ELSE @,
                     !.phone = IF res.phone # <<>> THEN res.phone ELSE @]
      ELSE c)

\* handleBatchSearchContacts resumes with the lookup's result
BatchResumes(res) ==
  LET candidate == targets[batchI]
      Logged(msg, type) == Append(batchLogs, BatchLog(targets, batchI, msg, type))
      local == UpdateCandidateState(localCandidates, candidate.id, res)
  IN  IF res.error # NoError
        THEN /\ BatchLoop(targets, batchI + 1, Logged(res.error, "error"))
             /\ UNCHANGED << localCandidates, displayedCandidates, searchTimer >>
        ELSE IF res.email # <<>> \/ res.phone # <<>>
          THEN /\ localCandidates' = local
               /\ displayedCandidates' =
                    EffectDisplayed(searchQuery, local, activeFilter, currentUserId,
                                    isAdmin,
                                    UpdateCandidateState(displayedCandidates,
                                                         candidate.id, res))
               /\ searchTimer' = EffectTimer(searchQuery, local, activeFilter,
                                             currentUserId)
               /\ IF candidate.manatalId # Null
                    THEN /\ batchLogs' = Logged("Success: Found Contact.", "success")
                         /\ batchPc' = "propagate"
                         /\ UNCHANGED << batchProgress, batchI, isBatchProcessing >>
                    ELSE BatchLoop(targets, batchI + 1,
                                   Logged("Success: Found Contact.", "success"))
          ELSE /\ BatchLoop(targets, batchI + 1,
                            Logged("No contact info found.", "warning"))
               /\ UNCHANGED << localCandidates, displayedCandidates, searchTimer >>

\* handleRocketReachLookup resumes with the lookup's result
SingleResumes(res) ==
  /\ isRocketReaching' = FALSE
  /\ IF res.email # <<>> \/ res.phone # <<>>
       THEN /\ rrFeedback' = [ type |-> "success", message |-> "Enriched successfully!" ]
            /\ regForm' = [regForm EXCEPT
                 !.email = IF res.email # <<>> THEN res.email ELSE @,
                 !.phone_number = IF res.phone # <<>> THEN res.phone ELSE @]
       ELSE /\ rrFeedback' = [ type |-> "warning",
                               message |-> IF res.error # NoError THEN res.error
                                           ELSE "No info found." ]
            /\ regForm' = regForm

\* lookupContactInfo returns res to the handler awaiting it
LookupReturns(res, ended) ==
  /\ lookupPc' = "idle"
  /\ lookupResult' = {res}
  /\ lookupProfile' = ended
  /\ IF lookupCaller = "batch"
       THEN /\ BatchResumes(res)
            /\ UNCHANGED << isRocketReaching, rrFeedback, regForm >>
       ELSE /\ SingleResumes(res)
            /\ UNCHANGED << batchLogs, batchProgress, batchPc, batchI,
                            isBatchProcessing, localCandidates, displayedCandidates,
                            searchTimer >>

\* lookupContactInfo stays suspended: the handlers' state is left alone
LookupGoesOn ==
  /\ lookupResult' = {}
  /\ lookupProfile' = {}
  /\ UNCHANGED << batchLogs, batchProgress, batchPc, batchI, isBatchProcessing,
                  localCandidates, displayedCandidates, searchTimer,
                  isRocketReaching, rrFeedback, regForm >>

\* the state after the page is opened: an empty store and overlay, PartnerPortal's
\* initial state, no registration and no lookup under way
Init ==
  /\ db = <<>>
  /\ nextId = 1
  /\ pinnedIds = [u \in UserIds |-> {}]
  /\ pinnedData = [u \in UserIds |-> <<>>]
  /\ interests = {}
  /\ currentUserId = NoUser
  /\ isAdmin = FALSE
  /\ localCandidates = <<>>
  /\ displayedCandidates = <<>>
  /\ activeFilter = "All Candidates"
  /\ searchQuery = <<>>
  /\ searchTimer = {}
  /\ searchInflight = {}
  /\ last = NoOp
  /\ regForm = EmptyForm
  /\ modalOpen = FALSE
  /\ duplicateModal = {}
  /\ regPc = "idle"
  /\ probeData = EmptyForm
  /\ probeIdx = 0
  /\ probeQueries = <<>>
  /\ probeAnswers = <<>>
  /\ probeResult = {}
  /\ createCalls = NoCalls
  /\ newCandidate = Null
  /\ lookupPc = "idle"
  /\ lookupCaller = "batch"
  /\ pollI = 0
  /\ sleptMs = 0
  /\ checks = 0
  /\ pollAllPending = TRUE
  /\ pollHadError = FALSE
  /\ lookupProfile = {}
  /\ lookupResult = {}
  /\ isRocketReaching = FALSE
  /\ rrFeedback = [ type |-> "idle", message |-> "" ]
  /\ isBatchProcessing = FALSE
  /\ showBatchModal = FALSE
  /\ batchProgress = [ current |-> 0, total |-> 0 ]
  /\ batchLogs = <<>>
  /\ batchPc = "idle"
  /\ targets = <<>>
  /\ batchI = 0
  /\ batchLookups = <<>>

\* lookupContactInfo is called with a non-empty URL: up to its first await
LookupCalled(caller) ==
  /\ lookupPc' = "lookup"
  /\ lookupCaller' = caller
  /\ pollI' = 0
  /\ sleptMs' = 0
  /\ checks' = 0
  /\ pollAllPending' = TRUE
  /\ pollHadError' = FALSE
  /\ lookupProfile' = {}
  /\ lookupResult' = {}

\* lookupContactInfo is called with an empty URL: it returns at once, before any
\* call of the edge function
LookupWithoutUrl ==
  /\ lookupPc = "idle"
  /\ batchPc = "idle"
  /\ ~isRocketReaching
  /\ lookupResult' = {ErrorOutcome(MsgUrlRequired)}
  /\ lookupProfile' = {}
  /\ pollI' = 0
  /\ sleptMs' = 0
  /\ checks' = 0
  /\ pollAllPending' = TRUE
  /\ pollHadError' = FALSE
  /\ last' = [ op |-> "lookupWithoutUrl" ]
  /\ UNCHANGED << portalVarsButLast, regVars, lookupPc, lookupCaller,
                  isRocketReaching, rrFeedback, isBatchProcessing, showBatchModal,
                  batchProgress, batchLogs, batchPc, targets, batchI, batchLookups >>

\* handleBatchSearchContacts, up to its first await (the button is disabled
\* while a batch runs or the list is empty)
BatchStart ==
  /\ ~isBatchProcessing
  /\ displayedCandidates # <<>>
  /\ targets' = displayedCandidates
  /\ showBatchModal' = TRUE
  /\ batchLookups' = <<>>
  /\ BatchLoop(displayedCandidates, 1, <<>>)
  /\ last' = [ op |-> "batchStart" ]
  /\ UNCHANGED << portalVarsButLast, regVars, lookupPc, lookupCaller, pollI, sleptMs,
                  checks, pollAllPending, pollHadError, lookupProfile, lookupResult,
                  isRocketReaching, rrFeedback >>

\* the 500 ms pause is over: lookupContactInfo(candidate.linkedinUrl) is called
ThrottleDone ==
  /\ batchPc = "throttle"
  /\ batchPc' = "lookup"
  /\ batchLookups' = Append(batchLookups, batchI)
  /\ LookupCalled("batch")
  /\ last' = [ op |-> "throttleDone" ]
  /\ UNCHANGED << portalVarsButLast, regVars, isRocketReaching, rrFeedback,
                  isBatchProcessing, showBatchModal, batchProgress, batchLogs,
                  targets, batchI >>

\* handleRocketReachLookup, up to its await
SingleLookup ==
  /\ modalOpen
  /\ ~isRocketReaching
  /\ regForm.linkedin_url # <<>>
  /\ isRocketReaching' = TRUE
  /\ LookupCalled("single")
  /\ last' = [ op |-> "singleLookup" ]
  /\ UNCHANGED << portalVarsButLast, regVars, rrFeedback, isBatchProcessing,
                  showBatchModal, batchProgress, batchLogs, batchPc, targets,
                  batchI, batchLookups >>

\* the 'lookup' call answers
LookupResponse(resp) ==
  /\ lookupPc = "lookup"
  /\ CASE resp.kind = "fnError" -> LookupReturns(ErrorOutcome(MsgConnection), {})
       [] resp.kind = "empty" -> LookupReturns(ErrorOutcome(MsgEmpty), {})
       [] resp.kind = "apiError" -> LookupReturns(ApiError(resp.code), {})
       [] OTHER ->
            IF resp.profile.status \in PollingStatuses
              THEN lookupPc' = "sleep" /\ LookupGoesOn
              ELSE LookupReturns(AfterPolling(resp.profile), {resp.profile})
  /\ last' = [ op |-> "lookupResponse" ]
  /\ UNCHANGED << db, nextId, pinnedIds, pinnedData, interests, currentUserId,
                  isAdmin, activeFilter, searchQuery, searchInflight,
                  modalOpen, duplicateModal, regPc, probeData, probeIdx,
                  probeQueries, probeAnswers, probeResult, createCalls, newCandidate,
                  lookupCaller, pollI, sleptMs, checks, pollAllPending, pollHadError,
                  showBatchModal, targets, batchLookups >>

\* pollForCompletion: sleep(POLL_INTERVAL_MS) is over, 'check_status' is called
PollSleepDone ==
  /\ lookupPc = "sleep"
  /\ lookupPc' = "check"
  /\ sleptMs' = sleptMs + POLL_INTERVAL_MS
  /\ last' = [ op |-> "pollSleepDone" ]
  /\ UNCHANGED << portalVarsButLast, regVars, lookupCaller, pollI, checks,
                  pollAllPending, pollHadError, lookupProfile, lookupResult, isRocketReaching,
                  rrFeedback, isBatchProcessing, showBatchModal, batchProgress,
                  batchLogs, batchPc, targets, batchI, batchLookups >>

\* a loop in which a transport error of 'check_status' is thrown, not skipped
PollCheckErrorThrows(resp) ==
  LET terminal == resp.kind = "profile" /\ resp.profile.status \in TerminalStatuses
  IN  /\ lookupPc = "check"
      /\ checks' = checks + 1
      /\ pollAllPending' = (pollAllPending /\ resp.kind = "profile" /\ ~terminal)
      /\ pollHadError' = (pollHadError \/ resp.kind = "error")
      /\ IF terminal
           THEN /\ pollI' = pollI
                /\ LookupReturns(AfterPolling(resp.profile), {resp.profile})
           ELSE /\ pollI' = pollI + 1
                /\ IF PollGoesOn(pollI + 1) /\ resp.kind # "error"
                     THEN lookupPc' = "sleep" /\ LookupGoesOn
                     ELSE LookupReturns(ErrorOutcome(MsgTimedOut), {})
      /\ last' = [ op |-> "pollCheckResponse" ]
      /\ UNCHANGED << db, nextId, pinnedIds, pinnedData, interests, currentUserId,
                      isAdmin, activeFilter, searchQuery, searchInflight,
                      modalOpen, duplicateModal, regPc, probeData, probeIdx,
                      probeQueries, probeAnswers, probeResult, createCalls,
                      newCandidate, lookupCaller, sleptMs,
                      showBatchModal, targets, batchLookups >>

\* pollForCompletion: 'check_status' answers.  A terminal profile is returned;
\* anything else goes to the next round, and after the last round the throw is
\* caught by lookupContactInfo
PollCheckResponse(resp) ==
  LET terminal == resp.kind = "profile" /\ resp.profile.status \in TerminalStatuses
  IN  /\ lookupPc = "check"
      /\ checks' = checks + 1
      /\ pollAllPending' = (pollAllPending /\ resp.kind = "profile" /\ ~terminal)
      /\ pollHadError' = (pollHadError \/ resp.kind = "error")
      /\ IF terminal
           THEN /\ pollI' = pollI
                /\ LookupReturns(AfterPolling(resp.profile), {resp.profile})
           ELSE /\ pollI' = pollI + 1
                /\ IF PollGoesOn(pollI + 1)
                     THEN lookupPc' = "sleep" /\ LookupGoesOn
                     ELSE LookupReturns(ErrorOutcome(MsgTimedOut), {})
      /\ last' = [ op |-> "pollCheckResponse" ]
      /\ UNCHANGED << db, nextId, pinnedIds, pinnedData, interests, currentUserId,
                      isAdmin, activeFilter, searchQuery, searchInflight,
                      modalOpen, duplicateModal, regPc, probeData, probeIdx,
                      probeQueries, probeAnswers, probeResult, createCalls,
                      newCandidate, lookupCaller, sleptMs,
                      showBatchModal, targets, batchLookups >>

\* a handler that a failed ATS update stops, before finally is reached
PropagateFailureAborts(ok) ==
  /\ batchPc = "propagate"
  /\ IF ok
       THEN BatchLoop(targets, batchI + 1, batchLogs)
       ELSE /\ batchPc' = "idle"
            /\ UNCHANGED << batchLogs, batchProgress, batchI, isBatchProcessing >>
  /\ last' = [ op |-> "propagateDone", ok |-> ok ]
  /\ UNCHANGED << portalVarsButLast, regVars, lookupPc, lookupCaller, pollI, sleptMs,
                  checks, pollAllPending, pollHadError, lookupProfile, lookupResult,
                  isRocketReaching, rrFeedback, showBatchModal, targets,
                  batchLookups >>

\* manatalService.updateCandidate(...).catch(() => {}) settles either way
PropagateDone(ok) ==
  /\ batchPc = "propagate"
  /\ BatchLoop(targets, batchI + 1, batchLogs)
  /\ last' = [ op |-> "propagateDone", ok |-> ok ]
  /\ UNCHANGED << portalVarsButLast, regVars, lookupPc, lookupCaller, pollI, sleptMs,
                  checks, pollAllPending, pollHadError, lookupProfile, lookupResult,
                  isRocketReaching, rrFeedback, showBatchModal, targets,
                  batchLookups >>

\* a pin may be added while the user holds fewer than MaxPinned snapshots
MayToggle(c) ==
  IsCurrentlyPinned(c, currentUserId) \/ Len(pinnedData[currentUserId]) < MaxPinned

\* no search is pending or in flight
Quiet == searchTimer = {} /\ searchInflight = {}

\* ---- the merge: the store is filled, one viewer loads it, and every search is
\* answered (with any response) before the next click
MergeQueries == { <<>>, <<"b", "o", "b">> }

RowNames == { <<"B", "o">>, <<"A", "l">> }

MergeNext ==
  \/ \E m \in {Null} \cup ManatalIds, n \in RowNames :
       nextId <= MaxCanon /\ currentUserId = NoUser /\ RemoteInsert(m, n, <<>>)
  \/ \E u \in UserIds, admin \in BOOLEAN : currentUserId = NoUser /\ Load(u, admin)
  \/ \E q \in MergeQueries : Quiet /\ SetQuery(q)
  \/ TimerFire
  \/ \E cl \in searchInflight, r \in ExternalLists : SearchResponse(cl, r)
  \/ \E c \in Elems(displayedCandidates) :
       Quiet /\ MayToggle(c) /\ HandlePinToggle(c)

MergeSpec == Init /\ [][MergeNext]_vars

\* ---- the tabs: the merge with the filter tab selected between searches
TabNext ==
  \/ \E m \in {Null} \cup ManatalIds, n \in RowNames :
       nextId <= MaxCanon /\ currentUserId = NoUser /\ RemoteInsert(m, n, <<>>)
  \/ \E u \in UserIds, admin \in BOOLEAN : currentUserId = NoUser /\ Load(u, admin)
  \/ \E f \in FILTER_TABS : Quiet /\ SetFilter(f)
  \/ \E q \in MergeQueries : Quiet /\ SetQuery(q)
  \/ TimerFire
  \/ \E cl \in searchInflight, r \in ExternalLists : SearchResponse(cl, r)
  \/ \E c \in Elems(displayedCandidates) :
       Quiet /\ MayToggle(c) /\ HandlePinToggle(c)

TabSpec == Init /\ [][TabNext]_vars

\* ---- the merge run again: partners (no admin) search, clear the box and search
\* again over the same store and overlay
RerunNext ==
  \/ \E m \in {Null} \cup ManatalIds, n \in RowNames :
       nextId <= MaxCanon /\ currentUserId = NoUser /\ RemoteInsert(m, n, <<>>)
  \/ \E u \in UserIds : currentUserId = NoUser /\ Load(u, FALSE)
  \/ \E q \in MergeQueries : Quiet /\ SetQuery(q)
  \/ TimerFire
  \/ \E cl \in searchInflight, r \in ExternalLists : SearchResponse(cl, r)
  \/ \E c \in Elems(displayedCandidates) :
       Quiet /\ MayToggle(c) /\ HandlePinToggle(c)

RerunSpec == Init /\ [][RerunNext]_vars

\* ---- the race: the search box changes while a search is awaited
RaceNext ==
  \/ \E m \in {Null} \cup ManatalIds, n \in RowNames :
       nextId <= MaxCanon /\ currentUserId = NoUser /\ RemoteInsert(m, n, <<>>)
  \/ currentUserId = NoUser /\ Load("u1", FALSE)
  \/ \E q \in MergeQueries : SetQuery(q)
  \/ TimerFire
  \/ \E cl \in searchInflight, r \in ExternalLists : SearchResponse(cl, r)

RaceSpec == Init /\ [][RaceNext]_vars

\* ---- the interests of one browser: two users sign in one after the other and
\* write the status of stored rows
OverlayNext ==
  \/ \E m \in {Null} \cup ManatalIds, n \in RowNames :
       nextId <= MaxCanon /\ RemoteInsert(m, n, <<>>)
  \/ \E u \in UserIds : u # currentUserId /\ Load(u, FALSE)
  \/ \E i \in 1..Len(db), status \in {AVAILABLE, HIRED} :
       UpdateStatus(db[i].id, status)

OverlaySpec == Init /\ [][OverlayNext]_vars

\* ---- the pins of one browser: two users sign in one after the other and
\* toggle pins on the stored rows
PinUsersNext ==
  \/ \E m \in {Null} \cup ManatalIds, n \in RowNames :
       nextId <= MaxCanon /\ RemoteInsert(m, n, <<>>)
  \/ \E u \in UserIds : u # currentUserId /\ Load(u, FALSE)
  \/ \E c \in Elems(GetAll(currentUserId)) :
       currentUserId # NoUser /\ MayToggle(c) /\ TogglePin(c, currentUserId)

PinUsersSpec == Init /\ [][PinUsersNext]_vars

\* ---- the pin overlay: one partner; pins set from the cards and by direct calls
\* of the service, deletions, edits, reloads, one-result searches
PinNames == { <<"A", "l">> }

PinResults ==
  { s \in ExternalLists : Len(s) <= 1 /\ \A i \in 1..Len(s) : s[i].name \in PinNames }

PinNext ==
  \/ \E m \in {Null} \cup ManatalIds, n \in PinNames :
       nextId <= MaxCanon /\ RemoteInsert(m, n, <<>>)
  \/ Load("u1", FALSE)
  \/ \E q \in MergeQueries : Quiet /\ SetQuery(q)
  \/ TimerFire
  \/ \E cl \in searchInflight, r \in PinResults : SearchResponse(cl, r)
  \/ \E c \in Elems(displayedCandidates) :
       Quiet /\ MayToggle(c) /\ HandlePinToggle(c)
  \/ \E c \in Elems(localCandidates) \cup Elems(displayedCandidates) :
       Quiet /\ MayToggle(c) /\ TogglePin(c, currentUserId)
  \/ \E c \in Elems(db) :
       currentUserId = NoUser /\ TogglePin(c, NoUser)
  \/ \E c \in Elems(displayedCandidates) : Quiet /\ ExecuteDelete(c)
  \/ \E c \in Elems(displayedCandidates), n \in PinNames : Quiet /\ EditSubmit(c, n)
  \/ \E id \in LocalIds : RemoteDelete(id)

PinSpec == Init /\ [][PinNext]_vars

\* ---- the registration: one partner fills the form in and submits it
FormValues == { <<>>, <<" ", "a", "b", " ">>, <<" ", "a", "b", "c">> }

FormFields == {"email", "phone_number", "linkedin_url", "full_name"}

ProbeNext ==
  \/ currentUserId = NoUser /\ Load("u1", FALSE)
  \/ OpenCreate
  \/ \E f \in FormFields, v \in FormValues :
       regPc = "idle" /\ probeResult = {} /\ SetField(f, v)
  \/ db = <<>> /\ RegisterSubmit
  \/ \E resp \in ProbeResponses : ProbeResponse(resp)
  \/ \E ok \in BOOLEAN, m \in ManatalIds : CreateCandidateResponse(ok, m)
  \/ \E ok \in BOOLEAN : nextId <= MaxCanon /\ CreateLocalCandidateResponse(ok)
  \/ DismissDuplicate
  \/ CloseModal

ProbeSpec == Init /\ [][ProbeNext]_vars

\* ---- the enrichment: a stored list is loaded, then one batch runs, or single
\* lookups are made from the form
MaxBatch == 3

Urls == { <<>>, <<"i", "n">> }

BatchProfiles ==
  { pr \in Profiles :
      /\ pr.status \in {"searching", "waiting", "complete", "failed", "unknown"}
      /\ pr.emails \in { <<>>, << Mail(<<"w", "@">>, "professional"),
                                  Mail(<<"p", "@">>, "personal") >> }
      /\ pr.phones # <<>> => pr.emails = <<>> }

\* the status of an API error: 0 is a response with an error or detail field and
\* no numeric status; the lookups of a batch meet two of them
ApiCodes ==
  IF lookupCaller = "single" THEN {0, 401, 403, 404, 500} ELSE {403, 500}

EnrichNext ==
  \/ \E m \in {Null, 101}, url \in Urls :
       /\ nextId <= MaxBatch
       /\ currentUserId = NoUser
       /\ m # Null => url # <<>>
       /\ RemoteInsert(m, <<"A", "l">>, url)
  \/ currentUserId = NoUser /\ Load("u2", TRUE)
  \/ lookupPc = "idle" /\ targets = <<>> /\ ~modalOpen /\ BatchStart
  \/ ThrottleDone
  \/ \E resp \in LookupResponses(BatchProfiles, ApiCodes) : LookupResponse(resp)
  \/ PollSleepDone
  \/ \E resp \in CheckResponses(BatchProfiles) : PollCheckResponse(resp)
  \/ \E ok \in BOOLEAN : PropagateDone(ok)
  \/ targets = <<>> /\ OpenCreate
  \/ \E v \in Urls : lookupPc = "idle" /\ SetField("linkedin_url", v)
  \/ lookupPc = "idle" /\ SingleLookup
  \/ targets = <<>> /\ ~modalOpen /\ currentUserId # NoUser /\ LookupWithoutUrl

EnrichSpec == Init /\ [][EnrichNext]_vars

\* ---- the extraction: single lookups from the form, answered at once or after
\* polling with profiles of every email and phone list
ExtractProfiles ==
  { pr \in Profiles : pr.status \in {"searching", "complete", "not queued", "unknown"} }

ExtractNext ==
  \/ currentUserId = NoUser /\ Load("u1", FALSE)
  \/ OpenCreate
  \/ \E v \in Urls : lookupPc = "idle" /\ SetField("linkedin_url", v)
  \/ lookupPc = "idle" /\ SingleLookup
  \/ \E resp \in LookupResponses(ExtractProfiles, {500}) : LookupResponse(resp)
  \/ PollSleepDone
  \/ \E resp \in CheckResponses(ExtractProfiles) : PollCheckResponse(resp)

ExtractSpec == Init /\ [][ExtractNext]_vars

\* timers fire and the awaited calls settle
EnrichFairness ==
  /\ WF_vars(ThrottleDone)
  /\ WF_vars(\E resp \in LookupResponses(BatchProfiles, ApiCodes) :
               LookupResponse(resp))
  /\ WF_vars(PollSleepDone)
  /\ WF_vars(\E resp \in CheckResponses(BatchProfiles) : PollCheckResponse(resp))
  /\ WF_vars(\E ok \in BOOLEAN : PropagateDone(ok))

EnrichFairSpec == EnrichSpec /\ EnrichFairness

\* ------------------------------------------------------- merge properties

\* C1: the displayed list never holds two entries with the same non-null
\* manatalId, the canonical list (and every search response) holding pairwise
\* different ones
C1_DisplayedManatalIdsDistinct ==
  LET Distinct(list) ==
        \A i, j \in 1..Len(list) :
          (i # j /\ list[i].manatalId # Null) => list[i].manatalId # list[j].manatalId
  IN  Distinct(localCandidates) => Distinct(displayedCandidates)

\* C2: when a search answers, the entry displayed for a result whose manatalId is
\* that of a canonical record is that canonical record itself, not the external
\* values and not another canonical record
C2_CanonicalPrecedence ==
  [][ \A cl \in searchInflight, r \in ExternalLists :
        SearchResponse(cl, r) =>
          \A i \in 1..Len(r), k \in 1..Len(cl.local), uuid \in FreshUuids :
            (cl.local[k].manatalId = r[i].manatalId
             /\ MergeResult(r[i], cl.local, cl.userId, uuid)
                  \in Elems(displayedCandidates'))
              => MergeResult(r[i], cl.local, cl.userId, uuid) = cl.local[k] ]_vars

\* --------------------------------------------------------- pin properties

\* C3: a pinned candidate (one with a snapshot) stays returned by getAll with
\* isPinned = TRUE, and so listed under 'Pinned', across every step that is not
\* an unpin of that candidate, whether or not the canonical store still has it
C3_PinPersists ==
  [][ \A u \in UserIds : \A n \in 1..Len(pinnedData[u]) :
        LET x == pinnedData[u][n]
            Keys(c) == {c.id, c.manatalId} \ {Null}
            Same(c) == Keys(c) \cap Keys(x) # {}
            unpinned == \E c \in Elems(localCandidates) \cup Elems(displayedCandidates) :
                          /\ Same(c)
                          /\ u = currentUserId
                          /\ HandlePinToggle(c) \/ TogglePin(c, u)
        IN  ~unpinned =>
              \E k \in 1..Len(GetAll(u)') :
                /\ Same(GetAll(u)'[k])
                /\ GetAll(u)'[k].isPinned
                /\ GetAll(u)'[k] \in Elems(FilterLocal(GetAll(u)', "Pinned", u, FALSE))
    ]_vars

\* C4: togglePin returns the negation of the candidate's pinned state as the
\* overlay join reports it (by externalId or localId); the call that follows at
\* once returns the opposite; and after a call that returned FALSE no flag is
\* left under the candidate's externalId or localId and no snapshot matches
\* either key
C4_ToggleNegates ==
  [][ \A c \in Elems(localCandidates) \cup Elems(displayedCandidates) :
        (HandlePinToggle(c) \/ TogglePin(c, currentUserId)) =>
          LET u == currentUserId
              result == TogglePinResult(c, u)
          IN  /\ result = ~IsPinnedJoin(c, u)
              /\ TogglePinResult(c, u)' = ~result
              /\ ~result =>
                   /\ c.id \notin pinnedIds'[u]
                   /\ c.manatalId \notin pinnedIds'[u]
                   /\ \A n \in 1..Len(pinnedData'[u]) :
                        /\ pinnedData'[u][n].id # c.id
                        /\ c.manatalId # Null =>
                             pinnedData'[u][n].manatalId # c.manatalId ]_vars

\* ------------------------------------------------ registration properties

\* C5: the probe queries in the order email, phone, linkedin, name; it reports
\* as matchedBy the first strategy, among those not skipped, whose query came
\* back with at least one result, as matched candidate the first result of that
\* query, and it issues no query after that one
C5_ProbeOrder ==
  LET Order == << "email", "phone", "linkedin", "name" >>
      Rank(f) == CHOOSE j \in 1..Len(Order) : Order[j] = f
      Value == [ email |-> probeData.email, phone |-> probeData.phone_number,
                 linkedin |-> probeData.linkedin_url, name |-> probeData.full_name ]
      Hit(a) == a.kind = "ok" /\ Len(a.results) >= 1
      k == Len(probeQueries)
  IN  /\ \A i, j \in 1..k :
           i < j => Rank(probeQueries[i].field) < Rank(probeQueries[j].field)
      /\ \A j \in 1..Len(probeAnswers) : Hit(probeAnswers[j]) => j = k
      /\ \A res \in probeResult :
           /\ res.isDuplicate <=> (k >= 1 /\ Len(probeAnswers) = k /\ Hit(probeAnswers[k]))
           /\ res.isDuplicate =>
                /\ res.matchedBy = probeQueries[k].field
                /\ res.existingCandidate = probeAnswers[k].results[1]
                /\ \A j \in 1..(Rank(res.matchedBy) - 1) :
                     Len(Trim(Value[Order[j]])) >= ProbeMinLength =>
                       \E i \in 1..(k - 1) :
                         /\ probeQueries[i].field = Order[j]
                         /\ ~Hit(probeAnswers[i])

C5_Witness ==
  \E res \in probeResult :
    /\ res.isDuplicate
    /\ res.matchedBy = "linkedin"
    /\ res.existingCandidate = 102
    /\ Len(probeQueries) = 2
    /\ probeQueries[1].field = "email"

C7_ProbeBeforeCreate ==
  /\ regPc = "probing" => createCalls = NoCalls /\ probeResult = {}
  /\ (createCalls # NoCalls \/ regPc \in {"createCandidate", "createLocalCandidate"})
       => probeResult = {NoMatch}
  /\ duplicateModal \subseteq probeResult
  /\ \A res \in probeResult :
       res.isDuplicate =>
         /\ createCalls = NoCalls
         /\ regPc = "idle"
         /\ last.op = "probeResponse" => duplicateModal = {res}

C7_Witness ==
  \E res \in probeResult :
    /\ res.isDuplicate
    /\ duplicateModal = {res}
    /\ createCalls = NoCalls
    /\ Len(probeAnswers) >= 1

\* -------------------------------------------------- enrichment properties

\* C8: a lookup that ends on a profile with status 'complete' and neither an
\* email nor a phone returns an outcome without contact data that is not an
\* error outcome (its error field, which is what the callers test, is unset) and
\* not the timeout outcome
C8_NoContactIsNoError ==
  \A pr \in lookupProfile, res \in lookupResult :
    (pr.status = "complete" /\ pr.emails = <<>> /\ pr.phones = <<>>) =>
      /\ res.email = <<>> /\ res.phone = <<>>
      /\ res.error # MsgTimedOut
      /\ res.error = NoError

\* C9: a lookup whose status checks all come back non-terminal makes exactly 10
\* of them, each after a further 3000 ms of sleep, never an 11th, and returns
\* the 'polling timed out' error; the loop index bounds the polling
C9_PollingBounded ==
  /\ checks <= 10
  /\ pollI <= checks
  /\ lookupPc \in {"sleep", "check"} => checks < 10
  /\ sleptMs = 3000 * (IF lookupPc = "check" THEN checks + 1 ELSE checks)
  /\ (lookupPc = "idle" /\ checks > 0 /\ pollAllPending) =>
       /\ checks = 10
       /\ lookupResult = {ErrorOutcome(MsgTimedOut)}
  /\ (lookupPc # "idle" /\ pollAllPending) => lookupResult = {}

C9_Witness ==
  /\ lookupPc = "idle"
  /\ pollAllPending
  /\ checks = 10
  /\ sleptMs = 30000
  /\ lookupResult = {ErrorOutcome(MsgTimedOut)}

\* C10: the batch takes the items in input order with at most one lookup under
\* way; an item without a linkedinUrl gets exactly one 'Skipped' line and no
\* lookup, an item with one gets exactly one lookup
C10_BatchSequential ==
  LET n == Len(batchLookups)
      Lines(i) == { k \in 1..Len(batchLogs) : batchLogs[k].item = i }
      Skip(k) == batchLogs[k].message = "Skipped - No LinkedIn URL."
      answered == Cardinality({ k \in 1..Len(batchLogs) : ~Skip(k) })
      reached == IF batchPc = "idle" THEN Len(targets) ELSE batchI - 1
  IN  /\ \A a, b \in 1..n : a < b => batchLookups[a] < batchLookups[b]
      /\ \A a, b \in 1..Len(batchLogs) : a < b => batchLogs[a].item < batchLogs[b].item
      /\ n - answered \in {0, 1}
      /\ n - answered = 1 <=> batchPc = "lookup"
      /\ batchPc = "lookup" <=> (lookupPc # "idle" /\ lookupCaller = "batch")
      /\ \A i \in 1..reached :
           IF targets[i].linkedinUrl = <<>>
             THEN /\ Cardinality(Lines(i)) = 1
                  /\ \A k \in Lines(i) : Skip(k) /\ batchLogs[k].type = "warning"
                  /\ \A a \in 1..n : batchLookups[a] # i
             ELSE /\ Cardinality({ a \in 1..n : batchLookups[a] = i }) = 1
                  /\ \A k \in Lines(i) : ~Skip(k)

C10_Witness ==
  /\ batchPc = "idle"
  /\ ~isBatchProcessing
  /\ Len(targets) = 3
  /\ targets[2].linkedinUrl = <<>>
  /\ batchLookups = << 1, 3 >>
  /\ Len(batchLogs) = 3

\* ------------------------------------------------- visibility and the tabs

C12_TabPredicateHolds ==
  (currentUserId # NoUser /\ Quiet) =>
    \A i \in 1..Len(displayedCandidates) :
      LET c == displayedCandidates[i]
      IN  /\ activeFilter = "Pinned" => c.isPinned
          /\ activeFilter = "All Candidates" => ~c.isPinned
          /\ activeFilter = "Hired" => c.status = HIRED
          /\ activeFilter = "My Candidates" => c.createdBy = currentUserId

\* ------------------------------------------------- pin overlay, continued

\* C13: togglePin called without a userId does not return a pinned-state value
\* (TRUE or FALSE) to its caller, and it leaves both localStorage entries as
\* they were
C13_TogglePinNeedsUser ==
  [][ \A c \in Elems(db) :
        TogglePin(c, NoUser) =>
          /\ TogglePinResult(c, NoUser) \notin BOOLEAN
          /\ pinnedIds' = pinnedIds
          /\ pinnedData' = pinnedData ]_vars

\* C14: a flag or a snapshot of a user's overlay is removed only by a togglePin
\* call of that user on the same candidate (one sharing an id or a manatalId
\* with it); every other step leaves it in place
C14_OnlyUnpinRemoves ==
  [][ \A u \in UserIds :
        LET Keys(c) == {c.id, c.manatalId} \ {Null}
            Toggled(keys) ==
              \E c \in Elems(localCandidates) \cup Elems(displayedCandidates) :
                /\ Keys(c) \cap keys # {}
                /\ u = currentUserId
                /\ HandlePinToggle(c) \/ TogglePin(c, u)
        IN  /\ \A k \in pinnedIds[u] : k \notin pinnedIds'[u] => Toggled({k})
            /\ \A x \in Elems(pinnedData[u]) :
                 x \notin Elems(pinnedData'[u]) => Toggled(Keys(x)) ]_vars

\* ------------------------------------------------------- batch, continued

\* C15: during a batch the reported total is the length of the input and stays
\* so, the reported current never decreases, current = k is only reported once
\* the outcome of item k is logged, and when the batch is over current = total
C15_ProgressAfterItems ==
  [][ targets' # <<>> =>
        /\ batchProgress'.total = Len(targets')
        /\ targets' = targets => batchProgress'.current >= batchProgress.current
        /\ \A k \in 1..batchProgress'.current :
             \E n \in 1..Len(batchLogs') : batchLogs'[n].item = k
        /\ batchPc' = "idle" => batchProgress'.current = batchProgress'.total ]_vars

\* C16: when the lookup of a batch item returns an email or a phone, the row of
\* that candidate in the canonical store takes exactly the found fields, at the
\* latest in the step that starts the ATS update
C16_CanonicalRowEnriched ==
  [][ \A res \in lookupResult' :
        (batchPc = "lookup" /\ res.error = NoError
         /\ (res.email # <<>> \/ res.phone # <<>>)) =>
          \A i \in 1..Len(db) :
            db[i].id = targets[batchI].id =>
              /\ Len(db') = Len(db)
              /\ db'[i] = [db[i] EXCEPT
                             !.email = IF res.email # <<>> THEN res.email ELSE @,
                             !.phone = IF res.phone # <<>> THEN res.phone ELSE @]
    ]_vars

\* the batch at any moment: no item is looked up twice, the flag stays set while
\* the batch runs, every item before the one at hand has its outcome logged, and
\* a batch that is over has logged every item, looked up every item with a
\* linkedinUrl and cleared the flag
C17_BatchSafe ==
  /\ \A a, b \in 1..Len(batchLookups) : a # b => batchLookups[a] # batchLookups[b]
  /\ batchPc # "idle" =>
       /\ isBatchProcessing
       /\ \A i \in 1..(batchI - 1) :
            \E n \in 1..Len(batchLogs) : batchLogs[n].item = i
  /\ (batchPc = "idle" /\ targets # <<>>) =>
       /\ ~isBatchProcessing
       /\ \A i \in 1..Len(targets) :
            /\ \E n \in 1..Len(batchLogs) : batchLogs[n].item = i
            /\ targets[i].linkedinUrl # <<>> =>
                 \E a \in 1..Len(batchLookups) : batchLookups[a] = i

\* C17: whatever the items' lookups and ATS updates come back with (an error, no
\* contact, a timeout thrown by the polling, a failed ATS update), the batch goes
\* on to every remaining item, looks no item up twice, and comes to its end with
\* the batch-processing flag cleared
C17_BatchGoesOn == []C17_BatchSafe /\ (isBatchProcessing ~> ~isBatchProcessing)

C17_Witness ==
  /\ last = [ op |-> "propagateDone", ok |-> FALSE ]
  /\ batchPc = "idle"
  /\ ~isBatchProcessing
  /\ Len(targets) = 3
  /\ batchLookups = << 1, 2, 3 >>
  /\ batchLogs[1].message = MsgTimedOut
  /\ batchLogs[2].message = MsgNoContact
  /\ batchLogs[3].type = "success"

\* ------------------------------------------------ registration, continued

\* C18: a probe query that fails (fetch throws, or the response is not OK) does
\* not end the probe: the next strategy that is not skipped is queried, in
\* order, and after the last one the probe returns isDuplicate = FALSE; so does
\* every probe none of whose queries came back with a result
C18_ProbeSurvivesFailures ==
  LET Order == << "email", "phone", "linkedin", "name" >>
      Rank(f) == CHOOSE j \in 1..Len(Order) : Order[j] = f
      Value == [ email |-> probeData.email, phone |-> probeData.phone_number,
                 linkedin |-> probeData.linkedin_url, name |-> probeData.full_name ]
      Due(j) == Len(Trim(Value[Order[j]])) >= ProbeMinLength
      Failed(a) == a.kind \in {"throw", "notok"}
      Hit(a) == a.kind = "ok" /\ Len(a.results) >= 1
      k == Len(probeQueries)
      m == Len(probeAnswers)
  IN  /\ m <= k
      /\ \A i \in 1..m :
           Failed(probeAnswers[i]) =>
             LET later == { j \in 1..Len(Order) :
                              j > Rank(probeQueries[i].field) /\ Due(j) }
             IN  IF later = {}
                   THEN probeResult = {NoMatch}
                   ELSE /\ k > i
                        /\ \A j \in later : Rank(probeQueries[i + 1].field) <= j
                        /\ Rank(probeQueries[i + 1].field) \in later
      /\ (probeResult # {} /\ \A i \in 1..m : ~Hit(probeAnswers[i])) =>
           /\ probeResult = {NoMatch}
           /\ k = Cardinality({ j \in 1..Len(Order) : Due(j) })
           /\ m = k

C18_Witness ==
  /\ Len(probeQueries) = 4
  /\ Len(probeAnswers) = 4
  /\ probeAnswers[1].kind = "throw"
  /\ probeAnswers[2].kind = "notok"
  /\ probeAnswers[3].kind = "ok"
  /\ probeAnswers[4].kind = "throw"
  /\ probeResult = {NoMatch}
  /\ regPc = "createCandidate"

\* ---------------------------------------------------- lookup, continued

\* C19: lookupContactInfo returns an error outcome without any status check and
\* without any sleep when the URL is empty (then before any call of the
\* provider), when the lookup call comes back with a transport error, with an
\* empty response, or with an API error; status 401 gives 'unauthorized', 403
\* 'access denied', 404 'not found', any other the generic API error
C19_FailsWithoutPolling ==
  [][ LET ErrorOnly(msg) ==
            /\ lookupPc' = "idle"
            /\ lookupResult' = {ErrorOutcome(msg)}
            /\ msg # NoError
            /\ checks' = 0
            /\ sleptMs' = 0
      IN  /\ LookupWithoutUrl => (lookupPc = "idle" /\ ErrorOnly(MsgUrlRequired))
          /\ \A resp \in LookupResponses(BatchProfiles, ApiCodes) :
               LookupResponse(resp) =>
                 /\ resp.kind = "fnError" => ErrorOnly(MsgConnection)
                 /\ resp.kind = "empty" => ErrorOnly(MsgEmpty)
                 /\ resp.kind = "apiError" =>
                      ErrorOnly(CASE resp.code = 401 -> MsgUnauthorized
                                  [] resp.code = 403 -> MsgDenied
                                  [] resp.code = 404 -> MsgNotFound
                                  [] OTHER -> MsgApi) ]_vars

C19_Witness ==
  /\ last = [ op |-> "lookupResponse" ]
  /\ lookupCaller = "single"
  /\ lookupResult = {ErrorOutcome(MsgNotFound)}
  /\ checks = 0
  /\ rrFeedback = [ type |-> "warning", message |-> MsgNotFound ]

\* ------------------------------------------------------ merge idempotence

\* C20: the merge is idempotent: a search response changes neither the canonical
\* list nor the pin overlay, and every other run of the merge on the same results,
\* canonical list, filter and user (whatever randomUUID() returns in it) yields
\* the displayed list this run left: same entries, same ids, same order
C20_MergeIdempotent ==
  [][ \A cl \in searchInflight, r \in ExternalLists :
        SearchResponse(cl, r) =>
          /\ localCandidates' = localCandidates
          /\ pinnedIds' = pinnedIds
          /\ pinnedData' = pinnedData
          /\ \A uuids \in UuidDraws :
               displayedCandidates' =
                 FilterSearch(MergeResults(r, cl.local, cl.userId, uuids),
                              cl.filter) ]_vars

\* a search has answered and the list shows a canonical row next to a record
\* synthesized for a result without a canonical match
C20_Witness ==
  /\ last = [ op |-> "search" ]
  /\ Len(displayedCandidates) = 2
  /\ \E i, j \in 1..2 :
       /\ displayedCandidates[i] \in Elems(localCandidates)
       /\ displayedCandidates[j] \notin Elems(localCandidates)
       /\ displayedCandidates[j].id \in ManatalIds

\* ------------------------------------------------ merge lookup and order

\* C21: when a search answers, the canonical record looked up for a result is
\* one with the result's manatalId whenever the canonical list holds such a
\* record, wherever in the list a record that only shares the name stands
C21_ExternalIdBeforeName ==
  [][ \A cl \in searchInflight, r \in ExternalLists :
        SearchResponse(cl, r) =>
          \A i \in 1..Len(r) :
            (\E k \in 1..Len(cl.local) : cl.local[k].manatalId = r[i].manatalId)
              => cl.local[ExistingLocal(r[i], cl.local)].manatalId
                   = r[i].manatalId ]_vars

\* C22: the displayed list keeps insertion order: without a search it is the
\* canonical list's entries in the canonical list's order; when a search answers,
\* the canonical records come first, in the canonical list's order, and the
\* records synthesized for the other results follow
C22_CanonicalFirstInOrder ==
  [][ /\ ~SearchActive(searchQuery') /\ currentUserId' # NoUser =>
           \E pos \in [1..Len(displayedCandidates') -> 1..Len(localCandidates')] :
             /\ \A i \in DOMAIN pos : displayedCandidates'[i] = localCandidates'[pos[i]]
             /\ \A i, j \in DOMAIN pos : i < j => pos[i] < pos[j]
      /\ \A cl \in searchInflight, r \in ExternalLists :
           SearchResponse(cl, r) =>
             \A i, j \in 1..Len(displayedCandidates') :
               i < j =>
                 /\ displayedCandidates'[j] \in Elems(cl.local)
                      => displayedCandidates'[i] \in Elems(cl.local)
                 /\ \A k, l \in 1..Len(cl.local) :
                      (displayedCandidates'[i] = cl.local[k]
                       /\ displayedCandidates'[j] = cl.local[l]) => k <= l ]_vars

\* ------------------------------------------------------ polling and outcomes

\* C23: a transport error on the status check of attempt k < MAX_RETRIES leaves
\* the lookup running: the next check follows after the delay.  A check that
\* comes back with a terminal status ends the polling at once, no check is issued
\* outside the polling, at most MAX_RETRIES are issued, and the terminal profile
\* decides the outcome ('failed' gives the failed-to-resolve error)
C23_PollSurvivesErrors ==
  [][ /\ \A resp \in CheckResponses(BatchProfiles) :
           PollCheckResponse(resp) =>
             /\ (resp.kind = "error" /\ pollI + 1 < MAX_RETRIES) =>
                  lookupPc' = "sleep" /\ lookupResult' = {}
             /\ (resp.kind = "profile" /\ resp.profile.status \in TerminalStatuses) =>
                  /\ lookupPc' = "idle"
                  /\ lookupProfile' = {resp.profile}
                  /\ lookupResult' = {AfterPolling(resp.profile)}
                  /\ resp.profile.status = "failed" =>
                       lookupResult' = {ErrorOutcome(MsgFailed)}
      /\ checks' # checks /\ checks' # 0 =>
           lookupPc = "check" /\ checks' = checks + 1 /\ checks' <= MAX_RETRIES
      /\ lookupPc' = "check" /\ lookupPc # "check" =>
           lookupPc = "sleep" /\ sleptMs' = sleptMs + POLL_INTERVAL_MS ]_vars

\* a lookup ended by a 'failed' status that a later check returned after a check
\* had ended in a transport error
C23_Witness ==
  /\ last = [ op |-> "pollCheckResponse" ]
  /\ pollHadError
  /\ checks >= 2
  /\ lookupPc = "idle"
  /\ \E pr \in lookupProfile : pr.status = "failed"
  /\ lookupResult = {ErrorOutcome(MsgFailed)}

\* C24: whenever a lookup ends with the extraction of a profile, the email of
\* the outcome is the address of an entry categorized personal if the profile
\* has one, else of one categorized professional, else of the first entry; the
\* phone is the first phone entry; with both lists empty the outcome is the
\* no-contact outcome and carries no contact data
C24_BestContact ==
  \A pr \in lookupProfile, res \in lookupResult :
    (pr.status # "failed" /\ (pr.status \in {"complete", "not queued"} \/ pr.present)) =>
      LET OfType(t) == { i \in 1..Len(pr.emails) : pr.emails[i].type = t }
      IN  /\ OfType("personal") # {} =>
                \E i \in OfType("personal") : res.email = pr.emails[i].email
          /\ (OfType("personal") = {} /\ OfType("professional") # {}) =>
                \E i \in OfType("professional") : res.email = pr.emails[i].email
          /\ (OfType("personal") = {} /\ OfType("professional") = {}
              /\ pr.emails # <<>>) => res.email = pr.emails[1].email
          /\ pr.phones # <<>> => res.phone = pr.phones[1]
          /\ (pr.emails = <<>> /\ pr.phones = <<>>) => res = ErrorOutcome(MsgNoContact)
          /\ (res.email # <<>> \/ res.phone # <<>>) => res.error = NoError

\* a lookup that polling ended took the personal address standing second in the
\* list, and the first phone
C24_Witness ==
  /\ last = [ op |-> "pollCheckResponse" ]
  /\ \E pr \in lookupProfile :
       /\ pr.emails = << Mail(<<"w", "@">>, "professional"),
                         Mail(<<"p", "@">>, "personal") >>
       /\ pr.phones = << <<"1">>, <<"2">> >>
  /\ lookupResult = {Outcome(<<"p", "@">>, <<"1">>, NoError)}
  /\ regForm.email = <<"p", "@">>

\* ------------------------------------------------------ overlay isolation

\* C25: the isInterested flag is per viewing user: after a user's updateStatus
\* for a stored candidate the flag getAll joins for that user is true exactly when
\* the status written is Hired, and the flag it joins for every other user is
\* what it was before
C25_InterestPerUser ==
  [][ \A i \in 1..Len(db), status \in {AVAILABLE, HIRED} :
        LET id == db[i].id
            Flag(u) == \E c \in Elems(GetAll(u)) : c.id = id /\ c.isInterested
        IN  UpdateStatus(id, status) =>
              /\ Flag(currentUserId)' = (status = HIRED)
              /\ \A v \in UserIds \ {currentUserId} : Flag(v)' = Flag(v) ]_vars

\* C26: the pin overlay is isolated per user: togglePin(candidate, userA) leaves
\* the pin flags and the snapshots of every other user unchanged, and with them
\* the isPinned value joined for that user on every record
C26_PinsPerUser ==
  [][ \A u \in UserIds : \A c \in Elems(GetAll(u)) :
        TogglePin(c, u) =>
          \A v \in UserIds \ {u} :
            /\ pinnedIds'[v] = pinnedIds[v]
            /\ pinnedData'[v] = pinnedData[v]
            /\ \A d \in Elems(db) \cup Elems(pinnedData[v]) \cup {c} :
                 IsPinnedJoin(d, v)' = IsPinnedJoin(d, v) ]_vars

\* u2 has just unpinned its last candidate while u1's pin and snapshot of a
\* candidate stand
C26_Witness ==
  /\ last = [ op |-> "togglePin" ]
  /\ currentUserId = "u2"
  /\ pinnedIds["u2"] = {} /\ pinnedData["u2"] = <<>>
  /\ pinnedIds["u1"] # {} /\ pinnedData["u1"] # <<>>

\* ------------------------------------------------------------ stale searches

\* C27: the response of a search started for an earlier query or filter never
\* overwrites the displayed list: when the search answers after the query or the
\* filter has changed, the displayed list stays as it is
C27_StaleResponseIgnored ==
  [][ \A cl \in searchInflight, r \in ExternalLists :
        (SearchResponse(cl, r)
         /\ (cl.query # searchQuery \/ cl.filter # activeFilter))
          => displayedCandidates' = displayedCandidates ]_vars

\* ------------------------------------------------------ overlay consistency

\* C28: every user's overlay is consistent: each stored snapshot has a pin flag
\* under its manatalId or its id, each pin flag key belongs to a stored snapshot,
\* and no two snapshots share a non-null manatalId or an id
C28_OverlayConsistent ==
  \A u \in UserIds :
    LET data == pinnedData[u]
    IN  /\ \A n \in 1..Len(data) :
             \/ data[n].id \in pinnedIds[u]
             \/ data[n].manatalId # Null /\ data[n].manatalId \in pinnedIds[u]
        /\ \A key \in pinnedIds[u] :
             \E n \in 1..Len(data) : data[n].id = key \/ data[n].manatalId = key
        /\ \A n, k \in 1..Len(data) :
             n # k =>
               /\ data[n].id # data[k].id
               /\ data[n].manatalId # Null => data[n].manatalId # data[k].manatalId

\* --------------------------------------------------- registration atomicity

\* C29: whenever handleRegisterSubmit has finished, with success or with a
\* reported failure, the candidate it created in the ATS (newCandidate) is in the
\* canonical store, and no ATS-only candidate is left
C29_AllOrNothing ==
  (regPc = "idle" /\ newCandidate # Null) =>
    \E i \in 1..Len(db) : db[i].manatalId = newCandidate

\* ------------------------------------------------------ batch outcomes

\* C30: a finished batch has logged exactly one typed outcome per item; the
\* outcome logged for an item whose lookup ended on a complete (or not queued)
\* profile with neither email nor phone is the warning 'No contact info found.',
\* and the error outcome is only logged for a lookup that did not end that way
C30_TypedOutcomes ==
  [][ /\ (~isBatchProcessing' /\ targets' # <<>>) =>
           /\ Len(batchLogs') = Len(targets')
           /\ \A k \in 1..Len(batchLogs') :
                /\ batchLogs'[k].item = k
                /\ batchLogs'[k].type \in {"success", "warning", "error"}
      /\ (lookupCaller = "batch" /\ lookupPc # "idle" /\ lookupPc' = "idle") =>
           LET entry == batchLogs'[Len(batchLogs) + 1]
               completed == \E pr \in lookupProfile' :
                              pr.status \in {"complete", "not queued"}
               empty == \A pr \in lookupProfile' :
                          pr.emails = <<>> /\ pr.phones = <<>>
           IN  /\ entry.item = batchI
               /\ (completed /\ empty) =>
                    /\ entry.type = "warning"
                    /\ entry.message = "No contact info found."
               /\ entry.type = "error" => ~completed ]_vars

====
